---- MODULE Spec2Model ----
(***************************************************************************)
(* Botshi: the stream-session and tag-timing engine of src/twitch-api.ts   *)
(* (class TwitchBot, saveStream / loadStream / getStoredStreamOrNew), the  *)
(* two export commands (commands/tagstwitch.ts, commands/tagssrt.ts) and   *)
(* the token file of TwitchBot.                                            *)
(*                                                                         *)
(* Conventions.                                                            *)
(*  - Times are milliseconds since the epoch.  A JavaScript Date object    *)
(*    and the ISO string JSON.stringify turns it into are different        *)
(*    values: [kind |-> "Date", ms |-> n] and [kind |-> "iso", ms |-> n].  *)
(*  - A file is absent, empty (opened with O_TRUNC, nothing written yet),  *)
(*    holds one complete JSON text, or holds garbled bytes.                *)
(*  - fs.writeFile of fs/promises is not awaited anywhere in the session   *)
(*    code: a call only queues the write, which later opens (truncates)    *)
(*    the file and then writes the text serialised at call time.           *)
(*  - The character ` of the deep-link lines cannot occur in a TLA+        *)
(*    string; it is written ' in the modelled reply.                       *)
(***************************************************************************)
EXTENDS Integers, Sequences, FiniteSets, TLC

\* ------------------------------------------------------------------ bounds
\* Most tags one session holds in the model.
MaxTags == 2
\* Most file writes in flight at once in the model.
MaxPending == 2

\* ------------------------------------------------------------------ inputs
StreamIds == {"s1"}
\* TWITCH_GLOBAL_DELAY values a deployment is configured with (seconds).
Delays == {5, 10, 15}
\* Wall-clock instants (ms) at which events are delivered.
Times == {5000, 100000}
Moderators == {"mod"}
Messages == {"a"}
VodUrl == "u"
\* event.startDate / currentStream.startDate of a stream id (the provider's).
StartDateOf(id) == 0

\* ------------------------------------------------------------------ dates
DateObj(ms) == [kind |-> "Date", ms |-> ms]
IsoString(ms) == [kind |-> "iso", ms |-> ms]
\* new Date(x).getTime(): x a Date or the ISO string of one.
GetTime(x) == x.ms
\* Date.prototype.toJSON, as JSON.stringify applies it.
DateToJSON(d) == IsoString(d.ms)

\* ------------------------------------------------------- time arithmetic
\* JavaScript's % : the remainder takes the sign of the dividend.
JsRem(a, b) == IF a >= 0 THEN a % b ELSE -((-a) % b)
\* Math.floor(a / b) for b > 0.
FloorDiv(a, b) == a \div b

getTimeDifference(date1, date2, delay) ==
    GetTime(date1) - GetTime(date2) - (delay * 1000)

\* hours, minutes and seconds as formatRelativeTime computes them.
RelativeTimeParts(timeDiffMs) ==
    [hours |-> FloorDiv(timeDiffMs, 3600000),
     minutes |-> FloorDiv(JsRem(timeDiffMs, 3600000), 60000),
     seconds |-> FloorDiv(JsRem(timeDiffMs, 60000), 1000)]

formatRelativeTime(timeDiffMs) ==
    LET hours == RelativeTimeParts(timeDiffMs).hours
        minutes == RelativeTimeParts(timeDiffMs).minutes
        seconds == RelativeTimeParts(timeDiffMs).seconds
    IN  ToString(hours) \o "h" \o ToString(minutes) \o "m"
            \o ToString(seconds) \o "s"

\* String.prototype.padStart(2, "0") of the decimal rendering of n.
PadStart2(n) ==
    IF Len(ToString(n)) < 2 THEN "0" \o ToString(n) ELSE ToString(n)

\* A mutant of PaddedTimeParts: the minutes are not reduced modulo the hour.
PaddedTimePartsWholeMinutes(timeDiffMs) ==
    [hours |-> FloorDiv(timeDiffMs, 3600000),
     minutes |-> FloorDiv(timeDiffMs, 60000),
     seconds |-> FloorDiv(JsRem(timeDiffMs, 60000), 1000)]
\* hours, minutes and seconds as formatRelativeTimeWithPadding computes them.
PaddedTimeParts(timeDiffMs) ==
    [hours |-> FloorDiv(timeDiffMs, 3600000),
     minutes |-> FloorDiv(JsRem(timeDiffMs, 3600000), 60000),
     seconds |-> FloorDiv(JsRem(timeDiffMs, 60000), 1000)]

formatRelativeTimeWithPadding(timeDiffMs) ==
    LET hours == PaddedTimeParts(timeDiffMs).hours
        minutes == PaddedTimeParts(timeDiffMs).minutes
        seconds == PaddedTimeParts(timeDiffMs).seconds
    IN  PadStart2(hours) \o ":" \o PadStart2(minutes) \o ":" \o PadStart2(seconds)

\* --------------------------------------------------------------- streams
NoStream == [kind |-> "null"]

\* new Stream(id, startTime, delay, vodDelay, tags): vodDelay is set to delay.
NewStream(id, startTime, delay, vodDelay, tags) ==
    [kind |-> "stream", id |-> id, startTime |-> startTime, delay |-> delay,
     vodDelay |-> delay, tags |-> tags]

\* JSON.stringify then JSON.parse of a tag / a stream: Dates become strings.
TagToJSON(tag) == [tag EXCEPT !.timestamp = DateToJSON(tag.timestamp)]
StreamToJSON(s) ==
    [s EXCEPT !.startTime = DateToJSON(s.startTime),
              !.tags = [i \in 1..Len(s.tags) |-> TagToJSON(s.tags[i])]]

\* Array.prototype.join(sep) over strings.
RECURSIVE Join(_, _)
Join(strs, sep) ==
    IF Len(strs) = 0 THEN ""
    ELSE IF Len(strs) = 1 THEN strs[1]
    ELSE strs[1] \o sep \o Join(Tail(strs), sep)

RECURSIVE SumSeq(_)
SumSeq(ns) == IF Len(ns) = 0 THEN 0 ELSE ns[1] + SumSeq(Tail(ns))

\* Length in characters of JSON.stringify(stream, null, 4).
JsonTagLen(tag, last) ==
    10 + 53 + (32 + Len(tag.relativeTime))
       + (35 + Len(ToString(tag.relativeTimestamp)))
       + (29 + Len(tag.moderator)) + (26 + Len(tag.message))
       + (IF last THEN 10 ELSE 11)
JsonLen(j) ==
    2 + (14 + Len(j.id)) + 45 + (15 + Len(ToString(j.delay)))
      + (18 + Len(ToString(j.vodDelay)))
      + (IF Len(j.tags) = 0 THEN 15
         ELSE 14 + SumSeq([i \in 1..Len(j.tags) |->
                              JsonTagLen(j.tags[i], i = Len(j.tags))]) + 6)
      + 1

\* ----------------------------------------------------------------- files
Absent == [kind |-> "absent"]
EmptyFile == [kind |-> "empty"]
JsonFile(j) == [kind |-> "json", json |-> j]
Garbled(n) == [kind |-> "garbled", len |-> n]

ContentLen(c) ==
    CASE c.kind = "json" -> JsonLen(c.json)
      [] c.kind = "garbled" -> c.len
      [] OTHER -> 0

\* The bytes of a file after a writer that opened it earlier writes text j at
\* offset 0: bytes beyond the text that another writer put there stay.
Overlay(c, j) ==
    IF c = JsonFile(j) \/ ContentLen(c) <= JsonLen(j)
    THEN JsonFile(j)
    ELSE Garbled(ContentLen(c))

\* ----------------------------------------------------------------- state
VARIABLES
    pc,           \* "boot" before bot.start() has run, then "running"
    globalDelay,  \* Number.parseInt(config.TWITCH_GLOBAL_DELAY ?? "0")
    clock,        \* the wall clock, ms
    stream,       \* TwitchBot.stream: Stream | null
    disk,         \* ./tags.<id>.json for every stream id
    pending,      \* fs.writeFile calls of the session files still in flight
    tokenFile,    \* tokens.json (TwitchBot.TOKEN_PATH)
    botReady,     \* the Bot and the EventSub listener exist
    ev,           \* the handler that ran last and what it answered
    hist,         \* what the last resume loaded, and the appends since
    \* class TwitchApiClient (the credential client)
    cphase,       \* "off": not constructed; "loading": initializeTokens is
                  \* at storage.load; "awaitRefresh": it awaits refreshToken;
                  \* "up": the constructor's then-callback has run
    cnow,         \* Date.now() of the client's process, ms
    currentToken,         \* TwitchApiClient.currentToken
    configRefreshToken,   \* TwitchApiClient.config.refreshToken
    tokenEncryption,      \* the secret of TwitchApiClient.tokenEncryption
    tokenStorage,         \* what TokenStorage.load would read
    tokenRefreshTimeout,  \* the timer scheduleTokenRefresh armed last
    refreshes,    \* the refreshToken calls that have not returned
    client,       \* TwitchApiClient.client: its token, its event handlers
    isConnected,  \* TwitchApiClient.isConnected
    connects,     \* the connect() calls that have not returned
    reconnectTimers,      \* the timers handleDisconnect armed, not yet fired
    cev,          \* the client step that ran last
    \* class TokenEncryption on its own
    sealing,      \* a text, what encrypt made of it, what decrypt gave back
    \* the two duration formats on their own
    rendering     \* a duration and what the two formats made of it

botVars == <<pc, globalDelay, clock, stream, disk, pending, tokenFile,
             botReady, ev, hist>>
clientVars == <<cphase, cnow, currentToken, configRefreshToken,
                tokenEncryption, tokenStorage, tokenRefreshTimeout, refreshes,
                client, isConnected, connects, reconnectTimers, cev>>
vars == <<pc, globalDelay, clock, stream, disk, pending, tokenFile, botReady,
          ev, hist, cphase, cnow, currentToken, configRefreshToken,
          tokenEncryption, tokenStorage, tokenRefreshTimeout, refreshes,
          client, isConnected, connects, reconnectTimers, cev, sealing,
          rendering>>

\* ------------------------------------------------ class TokenEncryption
\* A JavaScript string is a sequence of UTF-16 code units: "a" a letter, "NUL"
\* the unit 0, "HS" a high and "LS" a low surrogate.
CodeUnits == {"a", "NUL", "HS", "LS"}
\* An ASCII string whose characters do not matter one by one, as one unit.
Ascii(name) == <<name>>

\* cipher.update(text, 'utf8', 'hex'): the text as UTF-8.  A high surrogate
\* followed by a low one is one character ("PAIR"); a surrogate on its own
\* has no encoding and is written as U+FFFD.
RECURSIVE Utf8Encode(_)
Utf8Encode(text) ==
    IF text = <<>> THEN <<>>
    ELSE IF Len(text) >= 2 /\ text[1] = "HS" /\ text[2] = "LS"
         THEN <<"PAIR">> \o Utf8Encode(SubSeq(text, 3, Len(text)))
         ELSE IF text[1] \in {"HS", "LS"}
              THEN <<"FFFD">> \o Utf8Encode(Tail(text))
              ELSE <<text[1]>> \o Utf8Encode(Tail(text))

\* decipher.update(encryptedText, 'hex', 'utf8'): the bytes as a string.
RECURSIVE Utf8Decode(_)
Utf8Decode(bytes) ==
    IF bytes = <<>> THEN <<>>
    ELSE IF bytes[1] = "PAIR"
         THEN <<"HS", "LS">> \o Utf8Decode(Tail(bytes))
         ELSE <<bytes[1]>> \o Utf8Decode(Tail(bytes))

\* crypto.scryptSync(encryptionKey, 'salt', 32): one key per secret.
ScryptKey(encryptionKey) == [scrypt |-> encryptionKey]

\* The hex string of AES-256-GCM output and auth tag: which key and iv
\* sealed which bytes, and whether the string was altered since.
Ciphertext(key, iv, bytes) ==
    [key |-> key, iv |-> iv, bytes |-> bytes, intact |-> TRUE]
\* One hex digit of a ciphertext changed.
Tampered(encrypted) == [encrypted EXCEPT !.intact = FALSE]

\* TokenEncryption.encrypt, iv being what crypto.randomBytes(16) returned.
encrypt(encryptionKey, iv, text) ==
    [encrypted |-> Ciphertext(ScryptKey(encryptionKey), iv, Utf8Encode(text)),
     iv |-> iv]

\* What decrypt does: it returns a string, or decipher.final throws because
\* the auth tag does not match (DecryptionFailed).
Returned(text) == [thrown |-> FALSE, text |-> text]
DecryptionFailed == [thrown |-> TRUE, text |-> <<>>]
\* TokenEncryption.decrypt
decrypt(encryptionKey, encrypted, iv) ==
    IF /\ encrypted.intact
       /\ encrypted.key = ScryptKey(encryptionKey)
       /\ encrypted.iv = iv
    THEN Returned(Utf8Decode(encrypted.bytes))
    ELSE DecryptionFailed

\* ------------------------------------------------ TwitchApiClient's data
\* config.encryptionKey, and the secrets a key rotation can bring.
Secrets == {"k1", "k2"}
\* What crypto.randomBytes(16) can return.
IVs == {"iv1", "iv2", "iv3"}
\* The three draws of one saveTokens call, its own and those of the two
\* encrypt calls: 16 random bytes each, no two of them the same.
IvDraws == {<<"iv2", "iv3", "iv1">>}
\* config.token and config.refreshToken as the deployment supplies them.
ConfigToken == Ascii("T0")
ConfigRefreshToken == Ascii("R0")
\* The TokenResponse bodies of the identity provider.
TokenResponses ==
    {[access_token |-> Ascii("A1"), refresh_token |-> Ascii("R1"),
      expires_in |-> 3600]}
\* config.tokenRefreshInterval ?? 3600000, config.reconnectInterval ?? 5000
DefaultTokenRefreshInterval == 3600000
DefaultReconnectInterval == 5000
\* refreshToken: "Refresh 5 minutes before expiry", "Retry in 1 minute"
RefreshMargin == 300
RetryInterval == 60000

NoRecord == [kind |-> "absent"]
NoTimer == [kind |-> "none"]
\* others: refresh timers armed before this one and still pending.
Timer(interval) == [kind |-> "timer", interval |-> interval, others |-> 0]
\* How many refresh timers are pending.
PendingTimers(timer) == IF timer = NoTimer THEN 0 ELSE 1 + timer.others
\* new Chat({username, token}): the token it logs in with, and whether
\* setupEventHandlers has registered the handlers on it.
Chat(token, handlers) == [token |-> token, handlers |-> handlers]
NoClientEvent == [op |-> "none"]
NoSealing == [phase |-> "none"]
NoRendering == [phase |-> "none"]

\* The credential client while no TwitchApiClient has been constructed.
ClientOff ==
    /\ cphase = "off"
    /\ cnow = 0
    /\ currentToken = ConfigToken
    /\ configRefreshToken = ConfigRefreshToken
    /\ tokenEncryption = "k1"
    /\ tokenStorage = NoRecord
    /\ tokenRefreshTimeout = NoTimer
    /\ refreshes = <<>>
    /\ client = Chat(ConfigToken, FALSE)
    /\ isConnected = FALSE
    /\ connects = 0
    /\ reconnectTimers = 0
    /\ cev = NoClientEvent

\* The AccessToken objects the identity provider hands out.
TokenPairs == {[accessToken |-> "A1", refreshToken |-> "R1"]}
NoFile == [kind |-> "absent"]
\* JSON.stringify(tokenData, null, 2): the object's fields, as they are.
TokenJson(tokenData) ==
    [kind |-> "json", accessToken |-> tokenData.accessToken,
     refreshToken |-> tokenData.refreshToken]

\* The video lookup found nothing (null).
NoVod == [kind |-> "null"]
\* What a command handler answered, vod being the video an export looked up;
\* NoEvent after any other step.
Event(op, id, vod, reply, files, read) ==
    [op |-> op, id |-> id, vod |-> vod, reply |-> reply, files |-> files,
     read |-> read]
NoEvent == Event("none", "", NoVod, "", <<>>, FALSE)
HistOff == [on |-> FALSE, tags |-> <<>>, appended |-> 0, quiet |-> TRUE]

\* --------------------------------------------------- session persistence
\* readFile of a path nothing was ever written to fails like any other.
FileAt(d, id) == IF id \in DOMAIN d THEN d[id] ELSE Absent

loadStream(d, id) ==
    IF FileAt(d, id).kind = "json" THEN FileAt(d, id).json ELSE NoStream

getStoredStreamOrNew(d, id, startDate, delay) ==
    LET storedStream == loadStream(d, id)
    IN  IF storedStream # NoStream
        THEN storedStream
        ELSE NewStream(id, startDate, delay, 0, <<>>)

\* fs.writeFile(`./tags.${stream.id}.json`, JSON.stringify(stream, null, 4)),
\* not awaited: the text is fixed now, the file changes later.
WriteRequest(s) == [id |-> s.id, data |-> StreamToJSON(s), phase |-> "queued"]
saveStream(p, s) == p \cup {WriteRequest(s)}

PendingFor(id) == {w \in pending : w.id = id}

\* The tag of the tag command.
MakeTag(now, s, delay, moderator, message) ==
    LET timeDiff == getTimeDifference(now, s.startTime, delay)
    IN  [timestamp |-> now,
         relativeTime |-> formatRelativeTime(timeDiff),
         relativeTimestamp |-> timeDiff,
         moderator |-> moderator,
         message |-> message]

\* Records an earlier run of the bot left on disk: sessions it created and
\* tagged under the delay it was then configured with.
PriorRecords ==
    {StreamToJSON(
        LET s == NewStream("s1", DateObj(StartDateOf("s1")), d, 0, <<>>)
        IN  [s EXCEPT !.tags = <<MakeTag(DateObj(5000), s, d, "mod", "a")>>])
     : d \in {10}}

Init ==
    /\ pc = "boot"
    /\ globalDelay \in Delays
    /\ clock = 5000
    /\ stream = NoStream
    /\ disk \in {[id \in StreamIds |-> IF id = "s1" THEN c ELSE Absent] :
                    c \in {Absent} \cup {JsonFile(r) : r \in PriorRecords}}
    /\ pending = {}
    /\ tokenFile \in {NoFile, TokenJson([accessToken |-> "A1", refreshToken |-> "R1"])}
    /\ botReady = FALSE
    /\ ev = NoEvent
    /\ hist = HistOff
    /\ ClientOff
    /\ sealing = NoSealing
    /\ rendering = NoRendering

\* ------------------------------------------------------------- start-up
NoCurrentStream == ""

\* What initializeBot leaves in TwitchBot.stream: the stream check of an
\* already-live broadcast (cur), or the field as it was.
initializeBotStream(d, cur, delay, old) ==
    IF cur # NoCurrentStream
    THEN getStoredStreamOrNew(d, cur, DateObj(StartDateOf(cur)), delay)
    ELSE old

\* initializeBot, given the token file as loadTokens finds it.
initializeBot(tokens, cur) ==
    IF tokens = NoFile
    THEN UNCHANGED <<stream, botReady, hist>>
    ELSE /\ botReady' = TRUE
         /\ stream' = initializeBotStream(disk, cur, globalDelay, stream)
         /\ hist' =
              IF cur = NoCurrentStream THEN hist
              ELSE IF loadStream(disk, cur) # NoStream
                   THEN [on |-> TRUE, tags |-> loadStream(disk, cur).tags,
                         appended |-> 0, quiet |-> PendingFor(cur) = {}]
                   ELSE HistOff

\* bot.start(): initializeBot, then the OAuth routes are served.
Start ==
    /\ pc = "boot"
    /\ pc' = "running"
    /\ \E cur \in StreamIds \cup {NoCurrentStream} :
          /\ initializeBot(tokenFile, cur)
          /\ ev' = NoEvent
    /\ UNCHANGED <<globalDelay, clock, disk, pending, tokenFile>>
    /\ UNCHANGED <<clientVars, sealing, rendering>>

\* TwitchBot.saveTokens: the token object, serialised as it is.
saveTokens(tokenData) == TokenJson(tokenData)

ExchangeFailed == [kind |-> "error"]

\* GET /auth/callback: exchangeCode, saveTokens, initializeBot.
OAuthCallback ==
    /\ pc = "running"
    /\ \E tokenData \in TokenPairs \cup {ExchangeFailed},
          cur \in StreamIds \cup {NoCurrentStream} :
          IF tokenData = ExchangeFailed
          THEN /\ ev' = NoEvent
               /\ UNCHANGED <<tokenFile, stream, botReady, hist>>
          ELSE /\ tokenFile' = saveTokens(tokenData)
               /\ initializeBot(tokenFile', cur)
               /\ ev' = NoEvent
    /\ UNCHANGED <<pc, globalDelay, clock, disk, pending>>
    /\ UNCHANGED <<clientVars, sealing, rendering>>

\* authProvider.onRefresh: the refreshed token object is saved.
OnRefresh ==
    /\ botReady
    /\ \E newTokenData \in TokenPairs :
          tokenFile' = saveTokens(newTokenData)
    /\ ev' = NoEvent
    /\ UNCHANGED <<pc, globalDelay, clock, stream, disk, pending, botReady, hist>>
    /\ UNCHANGED <<clientVars, sealing, rendering>>

\* ------------------------------------------------------ lifecycle events
\* The session onStreamOnline installs.
onStreamOnlineStream(d, id, startDate, delay) ==
    NewStream(id, startDate, delay, 0, <<>>)

StreamOnline ==
    /\ botReady
    /\ \E id \in StreamIds :
          /\ stream' = onStreamOnlineStream(disk, id, DateObj(StartDateOf(id)),
                                            globalDelay)
          /\ Cardinality(saveStream(pending, stream')) <= MaxPending
          /\ pending' = saveStream(pending, stream')
          /\ ev' = Event("online", id, NoVod, "", <<>>, FALSE)
    /\ hist' = HistOff
    /\ UNCHANGED <<pc, globalDelay, clock, disk, tokenFile, botReady>>
    /\ UNCHANGED <<clientVars, sealing, rendering>>

\* TwitchBot.getTags / getStreamStart / getActiveStream
getTags(s) == IF s = NoStream THEN <<>> ELSE s.tags
getStreamStart(s) == IF s = NoStream THEN NoStream ELSE s.startTime
getActiveStream(s) == s

\* What onStreamOffline leaves of the session and of the files.
onStreamOfflineStream(s) == NoStream
\* A mutant of onStreamOfflineDisk: the ended session's file is removed.
onStreamOfflineDiskUnlink(d, s) ==
    IF s = NoStream THEN d ELSE [d EXCEPT ![s.id] = Absent]
onStreamOfflineDisk(d, s) == d

StreamOffline ==
    /\ botReady
    /\ stream' = onStreamOfflineStream(stream)
    /\ disk' = onStreamOfflineDisk(disk, stream)
    /\ ev' = Event("offline", "", NoVod, "", <<>>, FALSE)
    /\ hist' = HistOff
    /\ UNCHANGED <<pc, globalDelay, clock, pending, tokenFile, botReady>>
    /\ UNCHANGED <<clientVars, sealing, rendering>>

\* ------------------------------------------------------- the tag command
NoStreamReply == "Error: No hay stream"
TagReply(relativeTime) == "Se ha creado el tag en el minuto " \o relativeTime

\* A mutant of PushTag: unshift instead of push.
PushTagFront(s, tag) == [s EXCEPT !.tags = <<tag>> \o s.tags]
\* this.stream.tags.push(tag)
PushTag(s, tag) == [s EXCEPT !.tags = Append(s.tags, tag)]

\* A mutant of TagNoStream: a session is made up on the spot and tagged.
TagNoStreamImplicitSession ==
    LET s == NewStream("s1", DateObj(clock), globalDelay, 0, <<>>)
        tag == MakeTag(DateObj(clock), s, globalDelay, "mod", "a")
    IN  /\ stream' = PushTag(s, tag)
        /\ pending' = saveStream(pending, stream')
        /\ ev' = Event("tag", "s1", NoVod, TagReply(tag.relativeTime), <<>>,
                       FALSE)
        /\ UNCHANGED hist

\* The early return of the tag command: nothing but the reply.
TagNoStream ==
    /\ ev' = Event("tag", "", NoVod, NoStreamReply, <<>>, FALSE)
    /\ UNCHANGED <<stream, pending, hist>>

TagCommand ==
    /\ botReady
    /\ \E moderator \in Moderators, message \in Messages :
          IF stream = NoStream
          THEN TagNoStream
          ELSE LET tag == MakeTag(DateObj(clock), stream, globalDelay,
                                  moderator, message)
               IN  /\ Len(stream.tags) < MaxTags
                   /\ stream' = PushTag(stream, tag)
                   /\ Cardinality(saveStream(pending, stream')) <= MaxPending
                   /\ pending' = saveStream(pending, stream')
                   /\ ev' = Event("tag", stream.id, NoVod, TagReply(tag.relativeTime),
                                  <<>>, FALSE)
                   /\ hist' = IF hist.on
                              THEN [hist EXCEPT !.appended =
                                      IF @ < 2 THEN @ + 1 ELSE @]
                              ELSE hist
    /\ UNCHANGED <<pc, globalDelay, clock, disk, tokenFile, botReady>>
    /\ UNCHANGED <<clientVars, sealing, rendering>>

\* ------------------------------------------------- the writes in flight
\* open(path, 'w'): the file is created or truncated.
WriteOpen ==
    /\ \E w \in pending :
          /\ w.phase = "queued"
          /\ disk' = [disk EXCEPT ![w.id] = EmptyFile]
          /\ pending' = (pending \ {w}) \cup {[w EXCEPT !.phase = "opened"]}
    /\ ev' = NoEvent
    /\ UNCHANGED <<pc, globalDelay, clock, stream, tokenFile, botReady, hist>>
    /\ UNCHANGED <<clientVars, sealing, rendering>>

\* write(fd, text) and close.
WriteData ==
    /\ \E w \in pending :
          /\ w.phase = "opened"
          /\ disk' = [disk EXCEPT ![w.id] = Overlay(@, w.data)]
          /\ pending' = pending \ {w}
    /\ ev' = NoEvent
    /\ UNCHANGED <<pc, globalDelay, clock, stream, tokenFile, botReady, hist>>
    /\ UNCHANGED <<clientVars, sealing, rendering>>

Tick ==
    /\ \E t \in Times : t > clock /\ clock' = t
    /\ ev' = NoEvent
    /\ UNCHANGED <<pc, globalDelay, stream, disk, pending, tokenFile, botReady, hist>>
    /\ UNCHANGED <<clientVars, sealing, rendering>>

\* ---------------------------------------------------------- the exports
NoStreamId == ""
\* What the provider's video lookup can answer.
Vods ==
    {NoVod} \cup
    {[kind |-> "vod", id |-> "v1", streamId |-> sid, url |-> VodUrl] :
        sid \in StreamIds \cup {NoStreamId}}
VodIds == {"v1"}

MissingVodIdReply == "Tienes que incluir el id del vod!"
VodNotFoundReply == "Ese vod no existe"
NoStreamForVodReply == "Ese vod no pertenece a un stream."
NoTagsFoundReply == "No se encontraron tags para ese vod."
StreamHasNoTagsReply == "El stream no tiene tags."

\* getTwitchVodFromId: bot.getVodVideoFromId throws while apiClient is null,
\* and the error is answered with null.
getTwitchVodFromId(ready, vod) == IF ready THEN vod ELSE NoVod

Answer(reply, files, read) == [reply |-> reply, files |-> files, read |-> read]

\* One line of the deep-link list.
TwitchLine(tag, n, vod) ==
    ToString(n) \o " - ['" \o tag.relativeTime \o "'](<" \o vod.url \o "?t="
        \o tag.relativeTime \o ">) : " \o tag.message \o "\n"

\* `${mappedTags}`: an array in a template literal is joined with commas.
ArrayToString(strs) == Join(strs, ",")

\* A mutant of VodHasNoStream: the check is missing.
VodHasNoStreamUnchecked(vod) == FALSE

\* !vod.streamId
VodHasNoStream(vod) == vod.streamId = NoStreamId

\* commands/tagstwitch.ts execute
tagstwitchExecute(d, ready, vodid, lookup) ==
    IF vodid = "" THEN Answer(MissingVodIdReply, <<>>, FALSE)
    ELSE LET vod == getTwitchVodFromId(ready, lookup)
         IN  IF vod = NoVod THEN Answer(VodNotFoundReply, <<>>, FALSE)
             ELSE IF VodHasNoStream(vod)
                  THEN Answer(NoStreamForVodReply, <<>>, FALSE)
                  ELSE LET s == loadStream(d, vod.streamId)
                       IN  IF s = NoStream
                           THEN Answer(NoTagsFoundReply, <<>>, TRUE)
                           ELSE LET mappedTags ==
                                      [i \in 1..Len(s.tags) |->
                                          TwitchLine(s.tags[i], i, vod)]
                                IN  Answer("Tags del stream ("
                                             \o ToString(Len(s.tags)) \o "):\n > "
                                             \o ArrayToString(mappedTags),
                                           <<>>, TRUE)

\* !tag.relativeTimestamp
Falsy(n) == n = 0

\* The offset the subtitle export renders for a tag.
SrtOffset(tag, s) ==
    IF Falsy(tag.relativeTimestamp)
    THEN getTimeDifference(tag.timestamp, s.startTime, 0)
    ELSE tag.relativeTimestamp

\* One cue block of the subtitle export.
SrtBlock(tag, n, s) ==
    ToString(n) \o "\n" \o formatRelativeTimeWithPadding(SrtOffset(tag, s))
        \o ",000 --> "
        \o formatRelativeTimeWithPadding(SrtOffset(tag, s) + 15000)
        \o ",000\n" \o tag.message \o "\n\n"

\* commands/tagssrt.ts execute
tagssrtExecute(d, ready, vodid, lookup) ==
    IF vodid = "" THEN Answer(MissingVodIdReply, <<>>, FALSE)
    ELSE LET vod == getTwitchVodFromId(ready, lookup)
         IN  IF vod = NoVod THEN Answer(VodNotFoundReply, <<>>, FALSE)
             ELSE IF VodHasNoStream(vod)
                  THEN Answer(NoStreamForVodReply, <<>>, FALSE)
                  ELSE LET s == loadStream(d, vod.streamId)
                       IN  IF s = NoStream
                           THEN Answer(NoTagsFoundReply, <<>>, TRUE)
                           ELSE IF Len(s.tags) = 0
                           THEN Answer(StreamHasNoTagsReply, <<>>, TRUE)
                           ELSE LET mappedTags ==
                                      [i \in 1..Len(s.tags) |->
                                          SrtBlock(s.tags[i], i, s)]
                                IN  Answer("", <<ArrayToString(mappedTags)>>, TRUE)

TagsTwitch ==
    /\ \E vodid \in VodIds, lookup \in Vods :
          LET a == tagstwitchExecute(disk, botReady, vodid, lookup)
          IN  ev' = Event("tagstwitch", "", lookup, a.reply, a.files, a.read)
    /\ UNCHANGED <<pc, globalDelay, clock, stream, disk, pending, tokenFile,
                   botReady, hist>>
    /\ UNCHANGED <<clientVars, sealing, rendering>>

TagsSrt ==
    /\ \E vodid \in VodIds, lookup \in Vods :
          LET a == tagssrtExecute(disk, botReady, vodid, lookup)
          IN  ev' = Event("tagssrt", "", lookup, a.reply, a.files, a.read)
    /\ UNCHANGED <<pc, globalDelay, clock, stream, disk, pending, tokenFile,
                   botReady, hist>>
    /\ UNCHANGED <<clientVars, sealing, rendering>>

\* ================================================ class TwitchApiClient
\* Most calls of one kind (refreshToken, connect) in flight, and most
\* reconnect timers pending, at once in the model.
MaxCalls == 2
\* Date.now() while the client runs (ms); stored records expire before or
\* after it.
ClientNow == 4000000
\* Date.now() in a process started after the records written at ClientNow
\* have expired.
ClientLater == ClientNow + 2 * DefaultTokenRefreshInterval

\* FileTokenStorage.load: the parsed file, null when it cannot be read.
StorageLoad(file) == IF file.kind = "record" THEN file ELSE NoRecord

\* The EncryptedTokens object of TwitchApiClient.saveTokens.  iv is its own
\* randomBytes draw; ivAccess and ivRefresh are the draws inside the two
\* encrypt calls, whose iv fields saveTokens drops.  by names the caller.
ClientSaveTokens(encryptionKey, iv, ivAccess, ivRefresh, accessToken, refreshToken, expiresIn, now, by) ==
    [kind |-> "record",
     iv |-> iv,
     accessToken |-> encrypt(encryptionKey, ivAccess, accessToken).encrypted,
     refreshToken |->
         encrypt(encryptionKey, ivRefresh, refreshToken).encrypted,
     expiresAt |-> now + expiresIn * 1000,
     by |-> by]

\* A record some other writer sealed with one iv for both tokens, the iv it
\* stored: what initializeTokens is able to decrypt.
SealedRecord(encryptionKey, iv, accessToken, refreshToken, expiresAt) ==
    [kind |-> "record",
     iv |-> iv,
     accessToken |-> encrypt(encryptionKey, iv, accessToken).encrypted,
     refreshToken |-> encrypt(encryptionKey, iv, refreshToken).encrypted,
     expiresAt |-> expiresAt,
     by |-> "other"]

\* What the token file holds when the client is first constructed: nothing,
\* bytes that are no JSON, a sealed record that has expired or has not, or
\* the latter with a digit of the refresh ciphertext changed.
CorruptFile == [kind |-> "corrupt"]
StoredAtFirst ==
    LET r == SealedRecord("k1", "iv1", Ascii("A0"), Ascii("R9"),
                          ClientNow + 3600000)
    IN  {NoRecord, CorruptFile, r,
         [r EXCEPT !.expiresAt = ClientNow - 400000],
         [r EXCEPT !.refreshToken = Tampered(@)]}

\* One refreshToken call: who started it and where it is.
\*   "fetch"       the token exchange has not answered
\*   "save"        storage.save(tokens) has not answered
\*   "disconnect"  client.disconnect() of reconnectWithNewToken
\*   "connect"     client.connect() of reconnectWithNewToken
\* notified: the tokenRefreshHandlers were called with the new pair.
\* sent: the refresh_token of the request body, config.refreshToken as it
\* is when the call begins (had is the pair in memory at that moment).
NoData == [kind |-> "none"]
RefreshCall(origin, had) ==
    [origin |-> origin, at |-> "fetch", had |-> had,
     sent |-> had.refreshToken, data |-> NoData,
     tokens |-> NoRecord, notified |-> FALSE]
\* The pair in memory.
InMemory == [accessToken |-> currentToken, refreshToken |-> configRefreshToken]
InMemoryNext ==
    [accessToken |-> currentToken', refreshToken |-> configRefreshToken']
Drop(seq, i) == SubSeq(seq, 1, i - 1) \o SubSeq(seq, i + 1, Len(seq))

\* A mutant of scheduleTokenRefresh: the timer armed before is not cleared.
scheduleTokenRefreshNoClear(armed, interval) ==
    [Timer(interval) EXCEPT !.others = PendingTimers(armed)]
\* scheduleTokenRefresh(interval): the timer armed before is cleared, then
\* the new one is armed.
scheduleTokenRefresh(armed, interval) == Timer(interval)

\* The then-callback of the constructor, armed being the refresh timer
\* pending when it runs: connect() is called and not awaited,
\* scheduleTokenRefresh() arms the default interval.
ThenCallback(armed) ==
    /\ cphase' = "up"
    /\ connects < MaxCalls
    /\ connects' = connects + 1
    /\ tokenRefreshTimeout' =
         scheduleTokenRefresh(armed, DefaultTokenRefreshInterval)

\* new TwitchApiClient(config) in a fresh process, at once or after the
\* stored record's lifetime: fields from the config, a client with the
\* handlers of setupEventHandlers, initializeTokens started.  The token
\* file is what the process before left.
Construct ==
    /\ cphase' = "loading"
    /\ \E encryptionKey \in Secrets : tokenEncryption' = encryptionKey
    /\ currentToken' = ConfigToken
    /\ configRefreshToken' = ConfigRefreshToken
    /\ client' = Chat(ConfigToken, TRUE)
    /\ tokenRefreshTimeout' = NoTimer
    /\ refreshes' = <<>>
    /\ isConnected' = FALSE
    /\ connects' = 0
    /\ reconnectTimers' = 0
    /\ cev' = [op |-> "construct"]
    /\ \E now \in {ClientNow, ClientLater} : now >= cnow /\ cnow' = now
    /\ UNCHANGED tokenStorage
    /\ UNCHANGED <<botVars, sealing, rendering>>

\* No pair: what a failed decrypt leaves initializeTokens with.
NoPair == [kind |-> "none"]

\* A mutant of StoredPair: the access token is taken before the refresh
\* token is decrypted.
StoredPairEager(encryptionKey, storedTokens) ==
    LET accessToken == decrypt(encryptionKey, storedTokens.accessToken,
                               storedTokens.iv)
        refreshToken == decrypt(encryptionKey, storedTokens.refreshToken,
                                storedTokens.iv)
    IN  IF accessToken.thrown THEN NoPair
        ELSE [kind |-> "pair", accessToken |-> accessToken.text,
              refreshToken |-> IF refreshToken.thrown
                               THEN ConfigRefreshToken
                               ELSE refreshToken.text]

\* What initializeTokens adopts from a stored record: the decrypted pair, or
\* nothing (NoPair) when either decrypt throws.
StoredPair(encryptionKey, storedTokens) ==
    LET accessToken == decrypt(encryptionKey, storedTokens.accessToken,
                               storedTokens.iv)
        refreshToken == decrypt(encryptionKey, storedTokens.refreshToken,
                                storedTokens.iv)
    IN  IF accessToken.thrown \/ refreshToken.thrown
        THEN NoPair
        ELSE [kind |-> "pair", accessToken |-> accessToken.text,
              refreshToken |-> refreshToken.text]

\* initializeTokens, from the answer of storage.load on.
InitializeTokens ==
    /\ cphase = "loading"
    /\ LET storedTokens == StorageLoad(tokenStorage)
           pair == IF storedTokens = NoRecord THEN NoPair
                   ELSE StoredPair(tokenEncryption, storedTokens)
           outcome == IF storedTokens = NoRecord THEN "absent"
                      ELSE IF pair = NoPair THEN "undecryptable"
                      ELSE IF cnow < storedTokens.expiresAt THEN "adopted"
                      ELSE "expired"
       IN  /\ cev' = [op |-> "initializeTokens", outcome |-> outcome]
           /\ IF outcome = "adopted"
              THEN /\ currentToken' = pair.accessToken
                   /\ configRefreshToken' = pair.refreshToken
              ELSE UNCHANGED <<currentToken, configRefreshToken>>
           /\ IF outcome = "expired"
              THEN /\ refreshes' = Append(refreshes,
                                         RefreshCall("startup", InMemory))
                   /\ cphase' = "awaitRefresh"
                   /\ UNCHANGED <<connects, tokenRefreshTimeout>>
              ELSE /\ ThenCallback(tokenRefreshTimeout)
                   /\ UNCHANGED refreshes
    /\ UNCHANGED <<cnow, tokenEncryption, tokenStorage, client, isConnected,
                   reconnectTimers>>
    /\ UNCHANGED <<botVars, sealing, rendering>>

\* handleDisconnect: the flag is cleared and connect() is set to run after
\* reconnectInterval; timers armed before stay armed.
handleDisconnect ==
    /\ reconnectTimers < MaxCalls
    /\ isConnected' = FALSE
    /\ reconnectTimers' = reconnectTimers + 1

\* refreshToken returns after scheduleTokenRefresh(interval); when
\* initializeTokens awaited this call, it returns too and the constructor's
\* then-callback runs in the same turn of the event loop.
RefreshReturns(i, interval) ==
    /\ refreshes' = Drop(refreshes, i)
    /\ IF refreshes[i].origin = "startup" /\ cphase = "awaitRefresh"
       THEN ThenCallback(scheduleTokenRefresh(tokenRefreshTimeout, interval))
       ELSE /\ tokenRefreshTimeout' =
                 scheduleTokenRefresh(tokenRefreshTimeout, interval)
            /\ UNCHANGED <<cphase, connects>>

\* The delay refreshToken computes from a response.
refreshIn(data) == (data.expires_in - RefreshMargin) * 1000

\* The refresh timer fires: refreshToken() is called.
TimerFires ==
    /\ tokenRefreshTimeout # NoTimer
    /\ Len(refreshes) < MaxCalls
    /\ tokenRefreshTimeout' = NoTimer
    /\ refreshes' = Append(refreshes, RefreshCall("timer", InMemory))
    /\ cev' = [op |-> "timer"]
    /\ UNCHANGED <<cphase, cnow, currentToken, configRefreshToken,
                   tokenEncryption, tokenStorage, client, isConnected,
                   connects, reconnectTimers>>
    /\ UNCHANGED <<botVars, sealing, rendering>>

\* client.on('authentication', error) with an error, while the client is
\* connecting or connected: refreshToken() is called.  Only a client
\* setupEventHandlers saw has the handler.
AuthenticationFailed ==
    /\ cphase # "off"
    /\ client.handlers
    /\ connects > 0 \/ isConnected
    /\ Len(refreshes) < MaxCalls
    /\ refreshes' = Append(refreshes, RefreshCall("authentication", InMemory))
    /\ cev' = [op |-> "authentication"]
    /\ UNCHANGED <<cphase, cnow, currentToken, configRefreshToken,
                   tokenEncryption, tokenStorage, tokenRefreshTimeout, client,
                   isConnected, connects, reconnectTimers>>
    /\ UNCHANGED <<botVars, sealing, rendering>>

\* The token exchange answers: an error, a response that is not ok, or a
\* TokenResponse.  On a TokenResponse the pair is put in memory and
\* saveTokens gets as far as storage.save.
FetchResolves ==
    /\ \E i \in 1..Len(refreshes) :
          /\ refreshes[i].at = "fetch"
          /\ \/ /\ \E step \in {"rejected", "notOk"} :
                      cev' = [op |-> "refreshFailed", step |-> step,
                              origin |-> refreshes[i].origin,
                              had |-> refreshes[i].had]
                /\ RefreshReturns(i, RetryInterval)
                /\ UNCHANGED <<currentToken, configRefreshToken>>
             \/ /\ \E data \in TokenResponses, ivs \in IvDraws :
                      /\ currentToken' = data.access_token
                      /\ configRefreshToken' = data.refresh_token
                      /\ refreshes' =
                           [refreshes EXCEPT ![i] =
                              [@ EXCEPT !.at = "save", !.data = data,
                                 !.tokens =
                                    ClientSaveTokens(tokenEncryption,
                                        ivs[1], ivs[2], ivs[3],
                                        data.access_token,
                                        data.refresh_token, data.expires_in,
                                        cnow, "refreshToken")]]
                /\ cev' = [op |-> "exchanged"]
                /\ UNCHANGED <<cphase, connects, tokenRefreshTimeout>>
    /\ UNCHANGED <<cnow, tokenEncryption, tokenStorage, client, isConnected,
                   reconnectTimers>>
    /\ UNCHANGED <<botVars, sealing, rendering>>

\* storage.save answers.  Saved: the handlers are told, and
\* reconnectWithNewToken calls disconnect(), which clears the refresh timer
\* and waits for client.disconnect().  Not saved: the catch block.
SaveResolves ==
    /\ \E i \in 1..Len(refreshes) :
          /\ refreshes[i].at = "save"
          /\ \/ /\ tokenStorage' = refreshes[i].tokens
                /\ tokenRefreshTimeout' = NoTimer
                /\ refreshes' = [refreshes EXCEPT ![i].at = "disconnect",
                                                  ![i].notified = TRUE]
                /\ cev' = [op |-> "saved"]
                /\ UNCHANGED <<cphase, connects>>
             \/ /\ cev' = [op |-> "refreshFailed", step |-> "save",
                           origin |-> refreshes[i].origin,
                           had |-> refreshes[i].had]
                /\ RefreshReturns(i, RetryInterval)
                /\ UNCHANGED tokenStorage
    /\ UNCHANGED <<cnow, currentToken, configRefreshToken, tokenEncryption,
                   client, isConnected, reconnectTimers>>
    /\ UNCHANGED <<botVars, sealing, rendering>>

\* What the end of a refresh that went through leaves in cev.
Refreshed(call) ==
    [op |-> "refreshed", origin |-> call.origin, data |-> call.data]

\* client.disconnect() of reconnectWithNewToken answers.  Done: a new client
\* is made by createClient (setupEventHandlers is not called again) and
\* connect() is awaited.  Thrown: handleDisconnect, and refreshToken goes on
\* to schedule the next refresh.
DisconnectResolves ==
    /\ \E i \in 1..Len(refreshes) :
          /\ refreshes[i].at = "disconnect"
          /\ \/ /\ isConnected' = FALSE
                /\ client' = Chat(currentToken, FALSE)
                /\ refreshes' = [refreshes EXCEPT ![i].at = "connect"]
                /\ cev' = [op |-> "disconnected"]
                /\ UNCHANGED <<cphase, connects, tokenRefreshTimeout,
                               reconnectTimers>>
             \/ /\ handleDisconnect
                /\ cev' = Refreshed(refreshes[i])
                /\ RefreshReturns(i, refreshIn(refreshes[i].data))
                /\ UNCHANGED client
    /\ UNCHANGED <<cnow, currentToken, configRefreshToken, tokenEncryption,
                   tokenStorage>>
    /\ UNCHANGED <<botVars, sealing, rendering>>

\* client.connect() of reconnectWithNewToken answers; either way
\* refreshToken goes on to schedule the next refresh.
ConnectResolves ==
    /\ \E i \in 1..Len(refreshes) :
          /\ refreshes[i].at = "connect"
          /\ \/ isConnected' = TRUE /\ UNCHANGED reconnectTimers
             \/ handleDisconnect
          /\ cev' = Refreshed(refreshes[i])
          /\ RefreshReturns(i, refreshIn(refreshes[i].data))
    /\ UNCHANGED <<cnow, currentToken, configRefreshToken, tokenEncryption,
                   tokenStorage, client>>
    /\ UNCHANGED <<botVars, sealing, rendering>>

\* ------------------------------------------------------- specification
Next ==
    \/ Start
    \/ OAuthCallback
    \/ OnRefresh
    \/ StreamOnline
    \/ StreamOffline
    \/ TagCommand
    \/ WriteOpen
    \/ WriteData
    \/ Tick

Spec == Init /\ [][Next]_vars

\* A writeFile of a session file fails (disk full, permissions): its
\* promise rejects.  saveStream and the went-live handler do not await the
\* call, so their try/catch never sees the rejection and no handler for
\* unhandled rejections is installed: the runtime either only warns, or
\* raises the rejection as an uncaught exception and the process ends, the
\* session in memory and the writes in flight with it.
WriteFails ==
    /\ \E w \in pending :
          /\ ev' = Event("flushFailed", w.id, NoVod, "", <<>>, FALSE)
          /\ \/ /\ pending' = pending \ {w}
                /\ UNCHANGED <<pc, stream, botReady, hist>>
             \/ /\ pending' = {}
                /\ pc' = "boot"
                /\ stream' = NoStream
                /\ botReady' = FALSE
                /\ hist' = HistOff
    /\ UNCHANGED <<globalDelay, clock, disk, tokenFile>>
    /\ UNCHANGED <<clientVars, sealing, rendering>>

\* The bot with writes that can fail.
NextFaults ==
    \/ Next
    \/ WriteFails

SpecFaults == Init /\ [][NextFaults]_vars

\* The same program with the two export commands being used.
NextExport ==
    \/ Next
    \/ TagsTwitch
    \/ TagsSrt

SpecExport == Init /\ [][NextExport]_vars

\* A connect() call of the then-callback or of a reconnect timer answers.
ConnectReturns ==
    /\ connects > 0
    /\ connects' = connects - 1
    /\ \/ isConnected' = TRUE /\ UNCHANGED reconnectTimers
       \/ handleDisconnect
    /\ cev' = [op |-> "connect"]
    /\ UNCHANGED <<cphase, cnow, currentToken, configRefreshToken,
                   tokenEncryption, tokenStorage, tokenRefreshTimeout,
                   refreshes, client>>
    /\ UNCHANGED <<botVars, sealing, rendering>>

\* A timer of handleDisconnect fires: connect() is called.
ReconnectTimerFires ==
    /\ reconnectTimers > 0
    /\ connects < MaxCalls
    /\ reconnectTimers' = reconnectTimers - 1
    /\ connects' = connects + 1
    /\ cev' = [op |-> "reconnect"]
    /\ UNCHANGED <<cphase, cnow, currentToken, configRefreshToken,
                   tokenEncryption, tokenStorage, tokenRefreshTimeout,
                   refreshes, client, isConnected>>
    /\ UNCHANGED <<botVars, sealing, rendering>>

\* The transport of the client in use drops.  The 'disconnect' handler is on
\* the client setupEventHandlers saw; another client has no handler.
DisconnectEvent ==
    /\ cphase # "off"
    /\ isConnected
    /\ IF client.handlers
       THEN handleDisconnect
       ELSE UNCHANGED <<isConnected, reconnectTimers>>
    /\ cev' = [op |-> "disconnect"]
    /\ UNCHANGED <<cphase, cnow, currentToken, configRefreshToken,
                   tokenEncryption, tokenStorage, tokenRefreshTimeout,
                   refreshes, client, connects>>
    /\ UNCHANGED <<botVars, sealing, rendering>>

\* rotateEncryptionKey(newKey), storage.save answering or failing.
RotateEncryptionKey ==
    /\ cphase # "off"
    /\ \E newKey \in Secrets, ivs \in IvDraws, saved \in BOOLEAN :
          /\ tokenEncryption' = newKey
          /\ tokenStorage' =
               IF saved
               THEN ClientSaveTokens(newKey, ivs[1], ivs[2], ivs[3],
                        currentToken, configRefreshToken,
                        DefaultTokenRefreshInterval \div 1000, cnow,
                        "rotateEncryptionKey")
               ELSE tokenStorage
          /\ cev' = [op |-> "rotate", saved |-> saved]
    /\ UNCHANGED <<cphase, cnow, currentToken, configRefreshToken,
                   tokenRefreshTimeout, refreshes, client, isConnected,
                   connects, reconnectTimers>>
    /\ UNCHANGED <<botVars, sealing, rendering>>

\* The bot not started, as the credential client finds it.
BotIdle ==
    /\ pc = "boot"
    /\ globalDelay = 10
    /\ clock = 5000
    /\ stream = NoStream
    /\ disk = [id \in StreamIds |-> Absent]
    /\ pending = {}
    /\ tokenFile = NoFile
    /\ botReady = FALSE
    /\ ev = NoEvent
    /\ hist = HistOff

InitClient ==
    /\ BotIdle
    /\ cphase = "off"
    /\ cnow = ClientNow
    /\ currentToken = ConfigToken
    /\ configRefreshToken = ConfigRefreshToken
    /\ tokenEncryption = "k1"
    /\ tokenStorage \in StoredAtFirst
    /\ tokenRefreshTimeout = NoTimer
    /\ refreshes = <<>>
    /\ client = Chat(ConfigToken, FALSE)
    /\ isConnected = FALSE
    /\ connects = 0
    /\ reconnectTimers = 0
    /\ cev = NoClientEvent
    /\ sealing = NoSealing
    /\ rendering = NoRendering

\* The client while its secret stays the one it was constructed with.
NextClient ==
    \/ Construct
    \/ InitializeTokens
    \/ TimerFires
    \/ AuthenticationFailed
    \/ FetchResolves
    \/ SaveResolves
    \/ DisconnectResolves
    \/ ConnectResolves
    \/ ConnectReturns
    \/ ReconnectTimerFires
    \/ DisconnectEvent

SpecClient == InitClient /\ [][NextClient]_vars

\* The client with its secret rotated at any time, while the transport
\* reports no authentication failure.
NextKeys ==
    \/ Construct
    \/ InitializeTokens
    \/ TimerFires
    \/ FetchResolves
    \/ SaveResolves
    \/ DisconnectResolves
    \/ ConnectResolves
    \/ ConnectReturns
    \/ ReconnectTimerFires
    \/ DisconnectEvent
    \/ RotateEncryptionKey

SpecKeys == InitClient /\ [][NextKeys]_vars

\* ------------------------------------------- TokenEncryption on its own
\* Longest text sealed in the model.
MaxLen == 2
RECURSIVE Texts(_)
Texts(n) ==
    IF n = 0 THEN {<<>>}
    ELSE Texts(n - 1) \cup
         {Append(t, u) : t \in {x \in Texts(n - 1) : Len(x) = n - 1},
                         u \in CodeUnits}

\* encrypt(text) under some secret, randomBytes returning some iv.
Encrypt ==
    /\ \E text \in Texts(MaxLen), encryptionKey \in Secrets, iv \in IVs :
          sealing' = [phase |-> "sealed", text |-> text,
                      encryptionKey |-> encryptionKey,
                      sealed |-> encrypt(encryptionKey, iv, text)]
    /\ UNCHANGED <<botVars, clientVars, rendering>>

\* decrypt of what encrypt returned: its ciphertext, its iv, the same key.
Decrypt ==
    /\ sealing.phase = "sealed"
    /\ sealing' = [phase |-> "opened", text |-> sealing.text,
                   encryptionKey |-> sealing.encryptionKey,
                   sealed |-> sealing.sealed,
                   opened |-> decrypt(sealing.encryptionKey,
                                      sealing.sealed.encrypted,
                                      sealing.sealed.iv)]
    /\ UNCHANGED <<botVars, clientVars, rendering>>

InitCrypto ==
    BotIdle /\ ClientOff /\ sealing = NoSealing /\ rendering = NoRendering
NextCrypto == Encrypt \/ Decrypt
SpecCrypto == InitCrypto /\ [][NextCrypto]_vars

\* ------------------------------------- the two duration formats on their own
\* Most hours of a duration rendered in the model.
MaxHours == 100
\* Durations in ms: hours, minutes and seconds at and around the places
\* where a digit is added or a unit carries, with and without a fraction of
\* a second; and the same before the start.
Durations ==
    LET ds == {h * 3600000 + m * 60000 + sec * 1000 + ms :
                  h \in {0, 1, 9, 10, 99, MaxHours}, m \in {0, 1, 59},
                  sec \in {0, 25, 59}, ms \in {0, 999}}
    IN  ds \cup {-d : d \in ds}

\* formatRelativeTime(d) and formatRelativeTimeWithPadding(d) of one duration.
Render ==
    /\ \E d \in Durations :
          rendering' = [phase |-> "rendered", d |-> d,
                        link |-> formatRelativeTime(d),
                        linkParts |-> RelativeTimeParts(d),
                        srt |-> formatRelativeTimeWithPadding(d),
                        srtParts |-> PaddedTimeParts(d)]
    /\ UNCHANGED <<botVars, clientVars, sealing>>

InitFormat ==
    BotIdle /\ ClientOff /\ sealing = NoSealing /\ rendering = NoRendering
NextFormat == Render
SpecFormat == InitFormat /\ [][NextFormat]_vars

\* ================================================================ claims
IsPrefix(a, b) == Len(a) <= Len(b) /\ SubSeq(b, 1, Len(a)) = a
LastTag(s) == s.tags[Len(s.tags)]

\* C1: a went-live signal for an id that has a durable record resumes the
\* record: the active session then holds the record's tags and start time and
\* no write queued by the signal drops them; without a record the session is
\* fresh: no tags, the provided start time, the process-wide delay.
C1_WentLiveResumes ==
    [][ev'.op = "online" =>
        LET stored == loadStream(disk, ev'.id)
        IN  IF stored # NoStream
            THEN /\ stream'.id = stored.id
                 /\ stream'.tags = stored.tags
                 /\ GetTime(stream'.startTime) = GetTime(stored.startTime)
                 /\ \A w \in pending' \ pending : w.data.tags = stored.tags
            ELSE /\ stream'.id = ev'.id
                 /\ stream'.tags = <<>>
                 /\ GetTime(stream'.startTime) = StartDateOf(ev'.id)
                 /\ stream'.delay = globalDelay]_vars

\* C2: the tag the tag command creates at time t has
\* relativeTimestamp = t - startTime - 1000 * (the delay stored in the active
\* session), not clamped, and relativeTime is its link rendering.
C2_OffsetUsesSessionDelay ==
    [][(ev'.op = "tag" /\ stream # NoStream) =>
        LET tag == LastTag(stream')
            offset == clock - GetTime(stream.startTime) - stream.delay * 1000
        IN  /\ GetTime(tag.timestamp) = clock
            /\ tag.relativeTimestamp = offset
            /\ tag.relativeTime = formatRelativeTime(offset)]_vars

\* C3: a tag command while no session is active answers NoActiveSession and
\* changes nothing: no session appears, no file changes, no write is queued.
C3_TagWithoutSession ==
    [][(ev'.op = "tag" /\ stream = NoStream) =>
        /\ ev'.reply = NoStreamReply
        /\ stream' = NoStream
        /\ disk' = disk
        /\ pending' = pending]_vars

C3_Witness ==
    /\ ev.op = "tag"
    /\ ev.reply = NoStreamReply
    /\ stream = NoStream
    /\ \E id \in StreamIds : disk[id].kind = "json"

C5_SnapshotAfterEveryChange ==
    (stream # NoStream /\ PendingFor(stream.id) = {})
    => disk[stream.id] = JsonFile(StreamToJSON(stream))

\* C6: a went-offline signal clears the active session (no session, no tags,
\* no start time), leaves every session file and every write in flight as it
\* was, and a tag command that follows is answered NoActiveSession.
C6_OfflineClearsOnlySession ==
    /\ [][ev'.op = "offline" =>
            /\ getActiveStream(stream') = NoStream
            /\ getTags(stream') = <<>>
            /\ getStreamStart(stream') = NoStream
            /\ disk' = disk
            /\ pending' = pending]_vars
    /\ [][(ev.op = "offline" /\ ev'.op = "tag") =>
            ev'.reply = NoStreamReply /\ disk' = disk]_vars

C6_Witness ==
    /\ ev.op = "offline"
    /\ stream = NoStream
    /\ \E id \in StreamIds :
          disk[id].kind = "json" /\ Len(disk[id].json.tags) > 0

ExportOps == {"tagstwitch", "tagssrt"}
\* The step before was an export whose video lookup returned a video.
ExportOfVideo == ev.op \in ExportOps /\ botReady /\ ev.vod # NoVod

\* C7: both exports answer with a NoTagsFound message, and with no list and no
\* attachment, when the resolved session's file cannot be loaded or holds a
\* session with zero tags.
C7_NoTagsFound ==
    (/\ ExportOfVideo
     /\ ev.vod.streamId # NoStreamId
     /\ \/ loadStream(disk, ev.vod.streamId) = NoStream
        \/ Len(loadStream(disk, ev.vod.streamId).tags) = 0)
    => /\ ev.reply \in {NoTagsFoundReply, StreamHasNoTagsReply}
       /\ ev.files = <<>>

\* C8: when the lookup returns a video with no stream id, both exports answer
\* NoStreamForVod and load no session file.
C8_NoStreamForVod ==
    (ExportOfVideo /\ ev.vod.streamId = NoStreamId)
    => /\ ev.reply = NoStreamForVodReply
       /\ ev.files = <<>>
       /\ ~ev.read

C8_Witness ==
    /\ ExportOfVideo
    /\ ev.op = "tagssrt"
    /\ ev.vod.streamId = NoStreamId
    /\ ev.reply = NoStreamForVodReply
    /\ \E id \in StreamIds :
          disk[id].kind = "json" /\ Len(disk[id].json.tags) > 0

\* The cue block of tag k as the subtitle format defines it.
CueBlock(k, offset, text) ==
    ToString(k) \o "\n" \o formatRelativeTimeWithPadding(offset) \o ",000 --> "
        \o formatRelativeTimeWithPadding(offset + 15000) \o ",000\n"
        \o text \o "\n\n"

\* C9: the subtitle attachment is exactly the cue blocks of tags 1..n in
\* insertion order with nothing between or around them; block k is numbered k
\* and runs from tag k's offset to that offset + 15000 ms.
C9_SrtPayload ==
    (ev.op = "tagssrt" /\ ev.files # <<>>)
    => LET s == loadStream(disk, ev.vod.streamId)
       IN  ev.files =
             << Join([k \in 1..Len(s.tags) |->
                        CueBlock(k, s.tags[k].relativeTimestamp,
                                 s.tags[k].message)], "") >>

\* The token strings in the clear, and the strings a token file holds.
PlaintextTokens == UNION {{p.accessToken, p.refreshToken} : p \in TokenPairs}
FileStrings(f) ==
    IF f.kind = "json" THEN {f.accessToken, f.refreshToken} ELSE {}

\* C10: no step writes the access token or the refresh token to a durable file
\* in the clear.
C10_NoPlaintextTokenOnDisk ==
    [][tokenFile' # tokenFile =>
        FileStrings(tokenFile') \cap PlaintextTokens = {}]_vars

\* C11: the credential survives a restart: when a refresh has persisted the
\* pair (A, R) and the process starts again with the same secret before the
\* record's expiresAt, start-up leaves A as the access token and R as the
\* refresh token in memory.
C11_SurvivesRestart ==
    [][(/\ cev'.op = "initializeTokens"
        /\ tokenStorage.kind = "record"
        /\ tokenStorage.by = "refreshToken"
        /\ tokenStorage.accessToken.key = ScryptKey(tokenEncryption)
        /\ tokenStorage.refreshToken.key = ScryptKey(tokenEncryption)
        /\ cnow < tokenStorage.expiresAt)
       => /\ currentToken' = Utf8Decode(tokenStorage.accessToken.bytes)
          /\ configRefreshToken' =
                Utf8Decode(tokenStorage.refreshToken.bytes)]_vars

\* C12: for every string x, the empty one included, decrypt of the
\* ciphertext and the iv one encrypt(x) call returned, under the same key,
\* returns x.
C12_RoundTrip ==
    sealing.phase = "opened" => sealing.opened = Returned(sealing.text)

\* C13: when a refresh has gone through with expires_in = E, the pending
\* refresh timer is the one set to E - 300 seconds, whether the timer, an
\* authentication failure or start-up with an expired record began it.
C13_RefreshTimer ==
    [][cev'.op = "refreshed" =>
         tokenRefreshTimeout' =
            Timer((cev'.data.expires_in - 300) * 1000)]_vars

\* C14: a refresh attempt that fails, at whichever step (exchange rejected,
\* response not ok, persisting the new pair), leaves the access token and
\* the refresh token in memory as they were when the attempt began, and the
\* transport's token as it was.
C14_FailedRefreshKeepsTokens ==
    [][cev'.op = "refreshFailed" =>
         /\ InMemoryNext = cev'.had
         /\ client'.token = client.token]_vars

\* C15: no two token exchanges are in flight at once: of the refreshToken
\* calls running, started by the timer, by an authentication failure or by
\* start-up, at most one is waiting for the answer of the token endpoint.
ExchangesInFlight == {i \in 1..Len(refreshes) : refreshes[i].at = "fetch"}
C15_OneExchangeInFlight == Cardinality(ExchangesInFlight) <= 1

\* C16: every disconnect of the transport client in use, the client made
\* by a reconnect after a token refresh included, sets a reconnect attempt
\* to run after the reconnect delay: one more reconnect timer is pending
\* after the disconnect than before it.
C16_DisconnectArmsReconnect ==
    [][cev'.op = "disconnect" =>
         reconnectTimers' = reconnectTimers + 1]_vars

\* C17: when a decrypt of the stored record throws at start-up (the record
\* tampered with, sealed under another key, or stored with an iv it was not
\* sealed with), nothing of the record is adopted: the access token and the
\* refresh token in memory stay those of the config, connect() is called
\* and the refresh timer is armed.
DecryptThrows ==
    /\ tokenStorage.kind = "record"
    /\ \/ decrypt(tokenEncryption, tokenStorage.accessToken,
                  tokenStorage.iv).thrown
       \/ decrypt(tokenEncryption, tokenStorage.refreshToken,
                  tokenStorage.iv).thrown
C17_DecryptFailureFallsBack ==
    [][(cev'.op = "initializeTokens" /\ DecryptThrows) =>
         /\ currentToken' = ConfigToken
         /\ configRefreshToken' = ConfigRefreshToken
         /\ cphase' = "up"
         /\ connects' = connects + 1
         /\ tokenRefreshTimeout' # NoTimer]_vars
C17_Witness ==
    /\ cev = [op |-> "initializeTokens", outcome |-> "undecryptable"]
    /\ DecryptThrows
    /\ cphase = "up"
    /\ connects = 1
    /\ currentToken = ConfigToken

\* C18: rotateEncryptionKey changes the key and the persisted record only:
\* the tokens in memory, the transport (its client, its connection, the
\* connect calls and reconnect timers pending) and the refresh timer are as
\* before, and the record it persisted decrypts under the new key, with
\* the iv the record holds, to the pair in memory.
C18_RotationFrame ==
    [][cev'.op = "rotate" =>
         /\ UNCHANGED <<currentToken, configRefreshToken>>
         /\ UNCHANGED <<client, isConnected, connects, reconnectTimers>>
         /\ UNCHANGED tokenRefreshTimeout
         /\ cev'.saved =>
              StoredPair(tokenEncryption', tokenStorage') =
                [kind |-> "pair", accessToken |-> currentToken',
                 refreshToken |-> configRefreshToken']]_vars

\* C19: at start-up, a stored record that is present (sealed under the
\* client's key, not altered) and expired makes initializeTokens start a
\* token exchange at once, no connect() called yet; with no record, no
\* refresh is started and the access token stays the config's.
Authentic(record) ==
    /\ record.kind = "record"
    /\ record.accessToken.key = ScryptKey(tokenEncryption)
    /\ record.refreshToken.key = ScryptKey(tokenEncryption)
    /\ record.accessToken.intact
    /\ record.refreshToken.intact
C19_StartupRefresh ==
    [][cev'.op = "initializeTokens" =>
         /\ (Authentic(tokenStorage) /\ cnow >= tokenStorage.expiresAt) =>
               /\ \E i \in 1..Len(refreshes') :
                     /\ refreshes'[i].origin = "startup"
                     /\ refreshes'[i].at = "fetch"
               /\ connects' = 0
         /\ tokenStorage.kind = "absent" =>
               /\ refreshes' = <<>>
               /\ currentToken' = ConfigToken]_vars

\* C20: TwitchBot.stream changes only from no session to a session (the
\* broadcast went live), from a session to no session on went-offline, and
\* from a session to the same session (same id and startTime) with one more
\* tag on a tag command; a went-live signal while a session is active
\* leaves the session and its tags as they are.
C20_SessionTransitions ==
    [][stream' # stream =>
         \/ stream = NoStream /\ stream' # NoStream
         \/ stream # NoStream /\ ev'.op = "offline" /\ stream' = NoStream
         \/ /\ stream # NoStream
            /\ ev'.op = "tag"
            /\ stream' # NoStream
            /\ stream'.id = stream.id
            /\ stream'.startTime = stream.startTime
            /\ Len(stream'.tags) = Len(stream.tags) + 1
            /\ IsPrefix(stream.tags, stream'.tags)]_vars

\* C21: flushes of one session give no stale overwrite: whenever the last
\* write in flight for the active session's file completes, whatever the
\* order in which the overlapping writes of tag appends and of the session
\* creation opened and wrote, the file loads and holds every tag of the
\* session in memory, in order.  Flushed: the session as it is in memory was
\* handed to writeFile, by the tag append or the creation that made it so.
Flushed(s) ==
    \/ \E w \in PendingFor(s.id) : w.data = StreamToJSON(s)
    \/ disk[s.id] = JsonFile(StreamToJSON(s))
C21_NoStaleOverwrite ==
    [][(/\ stream # NoStream
        /\ stream' = stream
        /\ PendingFor(stream.id) # {}
        /\ {w \in pending' : w.id = stream.id} = {}
        /\ Flushed(stream))
       => LET stored == loadStream(disk', stream.id)
          IN  /\ stored # NoStream
              /\ stored.tags = StreamToJSON(stream).tags]_vars

\* C22: a reader of a session's file (an export, or loadStream of a resume)
\* never finds a partly written file: whenever the file of a session that
\* loaded with tags changes, what it holds next loads as the whole snapshot
\* of a write in flight, and neither export answers NoTagsFound from it.
VodOfStream(id) == [kind |-> "vod", id |-> "v1", streamId |-> id, url |-> VodUrl]
C22_ReadersSeeWholeSnapshots ==
    [][\A id \in StreamIds :
          LET before == loadStream(disk, id)
              after == loadStream(disk', id)
          IN  (before # NoStream /\ Len(before.tags) > 0
                 /\ disk'[id] # disk[id])
              => /\ after # NoStream
                 /\ \E w \in PendingFor(id) : after = w.data
                 /\ tagssrtExecute(disk', TRUE, "v1", VodOfStream(id)).reply
                       # NoTagsFoundReply
                 /\ tagstwitchExecute(disk', TRUE, "v1", VodOfStream(id)).reply
                       # NoTagsFoundReply]_vars

\* C23: a flush of the active session that fails after a tag was recorded is
\* not fatal: the session stays active with the tag in its list, and the bot
\* keeps running and serving commands.
C23_FlushFailureNotFatal ==
    [][(/\ ev'.op = "flushFailed"
        /\ stream # NoStream
        /\ ev'.id = stream.id
        /\ Len(stream.tags) > 0)
       => /\ stream' = stream
          /\ botReady'
          /\ pc' = "running"]_vars

\* C24: whenever a refresh attempt fails, whether the timer, an
\* authentication failure or start-up began it, the refresh timer pending
\* afterwards is the one set to the retry interval of 60 s.
C24_RetryAfterFailure ==
    [][cev'.op = "refreshFailed" =>
         tokenRefreshTimeout' = Timer(RetryInterval)]_vars

\* C25: a refresh that goes through adopts the new pair in memory, then
\* persists the encrypted pair, then notifies the listeners, then reconnects
\* the transport, then schedules the next refresh; and the transport client
\* in use when it ends was created with the new access token.
NewPair(data) ==
    [accessToken |-> data.access_token, refreshToken |-> data.refresh_token]
C25_RefreshStepOrder ==
    [][/\ \A i \in 1..Len(refreshes) :
            Len(refreshes') = Len(refreshes) =>
               /\ (refreshes[i].at = "fetch" /\ refreshes'[i].at = "save") =>
                     /\ InMemoryNext = NewPair(refreshes'[i].data)
                     /\ tokenStorage' = tokenStorage
                     /\ ~refreshes'[i].notified
                     /\ client' = client
               /\ (refreshes[i].at = "save"
                     /\ refreshes'[i].at = "disconnect") =>
                     /\ tokenStorage' = refreshes[i].tokens
                     /\ refreshes'[i].notified
                     /\ client' = client
                     /\ tokenRefreshTimeout' = NoTimer
               /\ (refreshes[i].at = "disconnect"
                     /\ refreshes'[i].at = "connect") =>
                     /\ refreshes[i].notified
                     /\ client'.token = refreshes[i].data.access_token
       /\ cev'.op = "refreshed" =>
            /\ client'.token = cev'.data.access_token
            /\ tokenRefreshTimeout' # NoTimer]_vars

\* C26: once start-up has ended, whenever no refreshToken call is running
\* exactly one refresh timer is pending: a reschedule leaves no earlier
\* timer pending beside the new one, and every refresh attempt, gone through
\* or failed, ends with a timer armed.
C26_OneTimerPending ==
    (cphase = "up" /\ refreshes = <<>>)
    => PendingTimers(tokenRefreshTimeout) = 1
C26_Witness ==
    /\ cphase = "up"
    /\ refreshes = <<>>
    /\ cev.op = "refreshFailed"
    /\ cev.origin = "authentication"
    /\ tokenRefreshTimeout = Timer(RetryInterval)

\* C27: the subtitle export renders each tag from the offset cached in it
\* (relativeTimestamp), whatever that value is, recomputing none, and
\* writes no session file and starts no write.
C27_SrtUsesCachedOffset ==
    [][(ev'.op = "tagssrt" /\ ev'.files # <<>>) =>
         LET s == loadStream(disk, ev'.vod.streamId)
         IN  /\ ev'.files =
                  << ArrayToString(
                        [k \in 1..Len(s.tags) |->
                            CueBlock(k, s.tags[k].relativeTimestamp,
                                     s.tags[k].message)]) >>
             /\ disk' = disk
             /\ pending' = pending]_vars

\* What a duration of d ms is in whole hours, minutes and seconds, and the
\* decimal rendering of a component padded with zeros to two digits or more.
HmsOf(d) ==
    LET total == d \div 1000
    IN  [hours |-> total \div 3600, minutes |-> (total % 3600) \div 60,
         seconds |-> total % 60]
TwoDigits(n) == IF 0 <= n /\ n < 10 THEN "0" \o ToString(n) ELSE ToString(n)

PartsSeconds(p) == p.hours * 3600 + p.minutes * 60 + p.seconds
C29_NegativeDurations ==
    (rendering.phase = "rendered" /\ rendering.d < 0)
    => /\ PartsSeconds(rendering.linkParts) = rendering.d \div 1000
       /\ PartsSeconds(rendering.srtParts) = rendering.d \div 1000

\* C30: whenever the transport is connected and no refreshToken call is
\* running, the client in use was created with the access token in memory
\* (getCurrentToken()); so after a start-up that adopts a stored record the
\* first connect uses the adopted token.
getCurrentToken == currentToken
C30_TransportUsesCurrentToken ==
    (cphase = "up" /\ isConnected /\ refreshes = <<>>)
    => client.token = getCurrentToken

\* C31: at most one reconnect is pending: a disconnect or a failed connect
\* that comes while a reconnect timer is pending, or while a connect is in
\* progress, arms no further timer, so the timers handleDisconnect armed
\* and that have not fired are never more than one.
C31_OneReconnectPending == reconnectTimers <= 1

\* C32: when start-up finds a stored record that decrypts and has expired,
\* the refresh it starts sends the identity provider the refresh token of
\* that record, not the refresh token of the config.
C32_StartupRefreshSendsStoredToken ==
    [][(cev'.op = "initializeTokens" /\ cev'.outcome = "expired") =>
         \E i \in 1..Len(refreshes') :
            /\ refreshes'[i].origin = "startup"
            /\ refreshes'[i].sent =
                 StoredPair(tokenEncryption, tokenStorage).refreshToken]_vars

====
